---------------------------- MODULE Spec2Model ----------------------------
(***************************************************************************)
(* A model of the vehicle CRUD service of src/src/main.rs: a single        *)
(* threaded accept loop over a TCP listener, a hand-written request        *)
(* router, five handlers that each open their own PostgreSQL connection    *)
(* and issue one statement, and the three text functions the handlers use  *)
(* (get_id, get_car_request_body and the JSON encoding of Car).            *)
(*                                                                         *)
(* Text is modelled as what it is: a String is a sequence of one-character *)
(* strings, and every split, prefix test, integer parse and JSON decode is *)
(* computed on the characters.  A Rust Option<T> is a sequence of length   *)
(* at most one (<<>> is None, <<v>> is Some(v)); a Result is a record with *)
(* an ok field.                                                            *)
(***************************************************************************)
EXTENDS Integers, Sequences, FiniteSets, TLC

VARIABLES
    pc,          \* where the single thread of main() is
    listening,   \* TcpListener::bind has succeeded
    tableExists, \* the store holds a table named cars
    cars,        \* the rows of table cars
    serial,      \* next value of the SERIAL sequence behind cars.id
    stream,      \* bytes the peer sent on the accepted TcpStream
    request,     \* handle_client's String request
    handler,     \* the function handle_client's match called
    response,    \* the (status_line, content) pair the handler returned
    out,         \* bytes written to the TcpStream of this connection
    dbOpened,    \* Client::connect calls that returned Ok for this request
    dbIssued,    \* statements sent on that connection for this request
    dbError,     \* "none", "connect" or "statement": how the store failed
    schemaRuns   \* calls of set_database so far

vars ==
    <<pc, listening, tableExists, cars, serial, stream, request, handler,
      response, out, dbOpened, dbIssued, dbError, schemaRuns>>

(***************************************************************************)
(* Bounds of the model.                                                    *)
(***************************************************************************)
\* Values the SERIAL sequence may hand out: at most MaxSerial rows are ever
\* inserted in one run.
MaxSerial == 2

(***************************************************************************)
(* Program constants (src/src/main.rs).                                    *)
(***************************************************************************)
\* let mut buffer = [0; 1024];
BUFFER_SIZE == 1024

\* i32::MAX and i32::MIN, the range of Car.id, Car.year and parse::<i32>().
I32_MAX == 2147483647
I32_MIN ==
    (-2147483647) - 1

\* The three status preambles of src/src/main.rs, lines 24-26.
OK_RESPONSE ==
    <<"H", "T", "T", "P", "/", "1", ".", "1", " ", "2", "0", "0", " ", "O", "K", "\r",
    "\n", "C", "o", "n", "t", "e", "n", "t", "-", "T", "y", "p", "e", ":", " ", "a", "p",
    "p", "l", "i", "c", "a", "t", "i", "o", "n", "/", "j", "s", "o", "n", "\r", "\n", "\r",
    "\n">>

NOT_FOUND ==
    <<"H", "T", "T", "P", "/", "1", ".", "1", " ", "4", "0", "4", " ", "N", "O", "T", " ",
    "F", "O", "U", "N", "D", "\r", "\n", "\r", "\n">>

INTERNAL_ERROR ==
    <<"H", "T", "T", "P", "/", "1", ".", "1", " ", "5", "0", "0", " ", "I", "N", "T", "E",
    "R", "N", "A", "L", " ", "E", "R", "R", "O", "R", "\r", "\n", "\r", "\n">>

\* The plain-text contents the handlers return.
MSG_CAR_CREATED ==
    <<"C", "a", "r", " ", "c", "r", "e", "a", "t", "e", "d">>

MSG_CAR_UPDATED ==
    <<"C", "a", "r", " ", "u", "p", "d", "a", "t", "e", "d">>

MSG_CAR_DELETED ==
    <<"C", "a", "r", " ", "d", "e", "l", "e", "t", "e", "d">>

MSG_CAR_NOT_FOUND ==
    <<"C", "a", "r", " ", "n", "o", "t", " ", "f", "o", "u", "n", "d">>

MSG_INTERNAL_ERROR ==
    <<"I", "n", "t", "e", "r", "n", "a", "l", " ", "e", "r", "r", "o", "r">>

MSG_404_NOT_FOUND ==
    <<"4", "0", "4", " ", "n", "o", "t", " ", "f", "o", "u", "n", "d">>

\* The patterns of handle_client's match, get_id and get_car_request_body.
POST_CARS ==
    <<"P", "O", "S", "T", " ", "/", "c", "a", "r", "s">>

GET_CARS_SLASH ==
    <<"G", "E", "T", " ", "/", "c", "a", "r", "s", "/">>

GET_CARS ==
    <<"G", "E", "T", " ", "/", "c", "a", "r", "s">>

PUT_CARS_SLASH ==
    <<"P", "U", "T", " ", "/", "c", "a", "r", "s", "/">>

DELETE_CARS_SLASH ==
    <<"D", "E", "L", "E", "T", "E", " ", "/", "c", "a", "r", "s", "/">>

BLANK_LINE ==
    <<"\r", "\n", "\r", "\n">>

SLASH ==
    <<"/">>

\* The field names of struct Car as serde writes and reads them.
KEY_ID ==
    <<"i", "d">>

KEY_BRAND ==
    <<"b", "r", "a", "n", "d">>

KEY_MODEL ==
    <<"m", "o", "d", "e", "l">>

KEY_YEAR ==
    <<"y", "e", "a", "r">>

KEY_PRICE ==
    <<"p", "r", "i", "c", "e">>

JSON_NULL ==
    <<"n", "u", "l", "l">>

(***************************************************************************)
(* Operations of str and Iterator that the program calls.                  *)
(***************************************************************************)
\* The least element of a non-empty set of integers.
MinOf(S) ==
    CHOOSE m \in S : \A n \in S : m <= n

\* char::is_whitespace, on the characters that occur in requests.
WHITESPACE ==
    {" ", "\t", "\n", "\r"}

\* The characters '0'..'9' in order: DIGITS[d + 1] is the digit d.
DIGITS ==
    <<"0", "1", "2", "3", "4", "5", "6", "7", "8", "9">>

IsDigit(c) ==
    \E i \in 1..10 : DIGITS[i] = c

DigitVal(c) ==
    (CHOOSE i \in 1..10 : DIGITS[i] = c) - 1

AllDigits(s) ==
    \A i \in 1..Len(s) : IsDigit(s[i])

\* str::starts_with(pattern)
starts_with(s, p) ==
    /\ Len(p) <= Len(s)
    /\ SubSeq(s, 1, Len(p)) = p

\* str::find(pattern) on the suffix of s that starts at index from (1-based):
\* the index of the first match, 0 when there is none.
FindFrom(s, p, from) ==
    LET hits == {i \in from..(Len(s) - Len(p) + 1) : SubSeq(s, i, i + Len(p) - 1) = p}
    IN  IF hits = {} THEN 0 ELSE MinOf(hits)

\* str::split(pattern), collected: the pieces between the non-overlapping
\* matches of p, found left to right; a text without a match is one piece.
RECURSIVE split(_, _)
split(s, p) ==
    LET i == FindFrom(s, p, 1)
    IN  IF i = 0
        THEN <<s>>
        ELSE <<SubSeq(s, 1, i - 1)>> \o split(SubSeq(s, i + Len(p), Len(s)), p)

\* str::split_whitespace(), collected: the maximal runs of non-whitespace.
RECURSIVE split_whitespace(_)
split_whitespace(s) ==
    LET starts == {i \in 1..Len(s) : s[i] \notin WHITESPACE}
    IN  IF starts = {}
        THEN <<>>
        ELSE LET b == MinOf(starts)
                 ends == {j \in b..Len(s) : j = Len(s) \/ s[j + 1] \in WHITESPACE}
                 e == MinOf(ends)
             IN  <<SubSeq(s, b, e)>> \o split_whitespace(SubSeq(s, e + 1, Len(s)))

\* Iterator::nth(n).unwrap_or_default() on pieces of text (n counts from 0).
nth_or_default(pieces, n) ==
    IF n + 1 <= Len(pieces) THEN pieces[n + 1] ELSE <<>>

\* Iterator::next().unwrap_or_default()
next_or_default(pieces) ==
    nth_or_default(pieces, 0)

\* Iterator::last().unwrap_or_default()
last_or_default(pieces) ==
    IF Len(pieces) = 0 THEN <<>> ELSE pieces[Len(pieces)]

\* The digits ds read as a decimal number and added to acc the way
\* i32::from_str_radix does for a text without '-': checked_mul(10) then
\* checked_add(digit); an overflow is an Err.
RECURSIVE AccumulatePositive(_, _)
AccumulatePositive(ds, acc) ==
    IF Len(ds) = 0
    THEN [ok |-> TRUE, val |-> acc]
    ELSE LET d == DigitVal(Head(ds))
         IN  IF acc > (I32_MAX - d) \div 10
             THEN [ok |-> FALSE, val |-> 0]
             ELSE AccumulatePositive(Tail(ds), acc * 10 + d)

\* The same for a text that starts with '-': checked_mul(10) then
\* checked_sub(digit), so that i32::MIN is reached without overflow.
RECURSIVE AccumulateNegative(_, _)
AccumulateNegative(ds, acc) ==
    IF Len(ds) = 0
    THEN [ok |-> TRUE, val |-> acc]
    ELSE LET d == DigitVal(Head(ds))
         IN  IF acc < (I32_MIN + d + 9) \div 10
             THEN [ok |-> FALSE, val |-> 0]
             ELSE AccumulateNegative(Tail(ds), acc * 10 - d)

\* str::parse::<i32>(): an optional sign, then one or more digits and nothing
\* else, the value within i32.  Err for the empty text and for a lone sign.
parse_i32(s) ==
    LET signed == Len(s) > 0 /\ s[1] \in {"+", "-"}
        ds == IF signed THEN Tail(s) ELSE s
    IN  IF Len(ds) = 0 \/ ~AllDigits(ds)
        THEN [ok |-> FALSE, val |-> 0]
        ELSE IF signed /\ s[1] = "-"
             THEN AccumulateNegative(ds, 0)
             ELSE AccumulatePositive(ds, 0)

\* i32's Display, as serde_json writes an integer.
RECURSIVE NatToChars(_)
NatToChars(n) ==
    IF n < 10
    THEN <<DIGITS[n + 1]>>
    ELSE NatToChars(n \div 10) \o <<DIGITS[(n % 10) + 1]>>

IntToChars(n) ==
    IF n < 0 THEN <<"-">> \o NatToChars(0 - n) ELSE NatToChars(n)

(***************************************************************************)
(* serde_json, for struct Car.  The decoder covers the JSON the requests   *)
(* of this model use: an object of "key":value members in any order with   *)
(* optional white space, string values without escape sequences, numbers   *)
(* without exponent, and null.  A text outside that grammar is an Err here *)
(* (serde_json also accepts escapes, exponents, nested values under        *)
(* unknown keys and a positional array; no request of the model has one).  *)
(* An f64 is the pair of its decimal digits m and the count e of digits    *)
(* after the point, trailing zeros dropped: 18000.0 is [m |-> 18000,       *)
(* e |-> 0] and 9999.5 is [m |-> 99995, e |-> 1].                          *)
(***************************************************************************)
\* The character at index k, "" past the end of the text.
CharAt(s, k) ==
    IF k \in 1..Len(s) THEN s[k] ELSE ""

\* The index of the first character at or after i that is not white space
\* (Len(s) + 1 at the end of the text).
SkipWhitespace(s, i) ==
    MinOf({j \in i..(Len(s) + 1) : CharAt(s, j) \notin WHITESPACE})

ScanFail ==
    [ok |-> FALSE, kind |-> "none", text |-> <<>>, next |-> 0]

\* A string that opens at s[i] = '"': its characters up to the closing quote.
\* A raw control character inside a string is an error in JSON.
ScanString(s, i) ==
    LET closers == {j \in (i + 1)..Len(s) : s[j] = "\""}
    IN  IF closers = {}
        THEN ScanFail
        ELSE LET j == MinOf(closers)
                 text == SubSeq(s, i + 1, j - 1)
             IN  IF \E k \in 1..Len(text) : text[k] \in {"\\", "\t", "\n", "\r"}
                 THEN ScanFail
                 ELSE [ok |-> TRUE, kind |-> "str", text |-> text, next |-> j + 1]

\* JSON's number grammar without exponent: -? (0 | [1-9][0-9]*) (. [0-9]+)?
IsJsonNumber(t) ==
    LET neg == CharAt(t, 1) = "-"
        body == IF neg THEN Tail(t) ELSE t
        dot == FindFrom(body, <<".">>, 1)
        ip == IF dot = 0 THEN body ELSE SubSeq(body, 1, dot - 1)
        fp == IF dot = 0 THEN <<>> ELSE SubSeq(body, dot + 1, Len(body))
    IN  /\ Len(ip) > 0
        /\ AllDigits(ip)
        /\ Len(ip) = 1 \/ ip[1] # "0"
        /\ dot = 0 \/ (Len(fp) > 0 /\ AllDigits(fp))

\* A number that starts at s[i]: the longest run of number characters.
ScanNumber(s, i) ==
    LET numchar(c) == IsDigit(c) \/ c \in {"-", "+", ".", "e", "E"}
        j == MinOf({k \in i..(Len(s) + 1) : ~numchar(CharAt(s, k))})
        text == SubSeq(s, i, j - 1)
    IN  IF IsJsonNumber(text)
        THEN [ok |-> TRUE, kind |-> "num", text |-> text, next |-> j]
        ELSE ScanFail

\* One JSON value that starts at s[i].
ScanValue(s, i) ==
    LET c == CharAt(s, i)
    IN  IF c = "\""
        THEN ScanString(s, i)
        ELSE IF c = "-" \/ IsDigit(c)
        THEN ScanNumber(s, i)
        ELSE IF i + 3 <= Len(s) /\ SubSeq(s, i, i + 3) = JSON_NULL
        THEN [ok |-> TRUE, kind |-> "null", text |-> <<>>, next |-> i + 4]
        ELSE ScanFail

ObjectFail ==
    [ok |-> FALSE, members |-> <<>>, next |-> 0]

\* The members of an object from index i, the first member's place, to the
\* closing brace: a sequence of [key, kind, text] in the order read.  Each
\* step binds what it has scanned (x \in {e}) before it goes on.
RECURSIVE ParseMembers(_, _, _)
\* After a member's value: ',' and the next member, or '}'.
AfterValue(s, key, value, acc) ==
    LET after == SkipWhitespace(s, value.next)
        member == [key |-> key.text, kind |-> value.kind, text |-> value.text]
    IN  IF CharAt(s, after) = ","
        THEN CHOOSE rest \in {ParseMembers(s, i, ms) :
                                i \in {after + 1}, ms \in {Append(acc, member)}} : TRUE
        ELSE IF CharAt(s, after) = "}"
        THEN [ok |-> TRUE, members |-> Append(acc, member), next |-> after + 1]
        ELSE ObjectFail

\* After a member's key: ':' and the value.
AfterKey(s, key, acc) ==
    LET colon == SkipWhitespace(s, key.next)
    IN  IF CharAt(s, colon) # ":"
        THEN ObjectFail
        ELSE CHOOSE rest \in {IF value.ok THEN AfterValue(s, key, value, acc) ELSE ObjectFail :
                                value \in {ScanValue(s, SkipWhitespace(s, colon + 1))}} : TRUE

ParseMembers(s, i, acc) ==
    LET k == SkipWhitespace(s, i)
    IN  IF CharAt(s, k) # "\""
        THEN ObjectFail
        ELSE CHOOSE rest \in {IF key.ok THEN AfterKey(s, key, acc) ELSE ObjectFail :
                                key \in {ScanString(s, k)}} : TRUE

\* A whole text as one JSON object: white space, '{', members, '}', white
\* space, end of text.  Trailing characters are an error.
ParseObject(s) ==
    LET open == SkipWhitespace(s, 1)
        first == SkipWhitespace(s, open + 1)
    IN  IF CharAt(s, open) # "{"
        THEN ObjectFail
        ELSE CHOOSE res \in {IF obj.ok /\ SkipWhitespace(s, obj.next) = Len(s) + 1
                             THEN obj
                             ELSE ObjectFail :
                                obj \in {IF CharAt(s, first) = "}"
                                         THEN [ok |-> TRUE, members |-> <<>>,
                                               next |-> first + 1]
                                         ELSE ParseMembers(s, first, <<>>)}} : TRUE

\* A JSON number read as i32: an integer literal within i32.  A literal with
\* a fraction, and -0, are floating point and not an i32.
JsonToI32(t) ==
    IF FindFrom(t, <<".">>, 1) # 0 \/ t = <<"-", "0">>
    THEN [ok |-> FALSE, val |-> 0]
    ELSE parse_i32(t)

\* The digits of a fraction without its trailing zeros.
RECURSIVE StripTrailingZeros(_)
StripTrailingZeros(fp) ==
    IF Len(fp) > 0 /\ fp[Len(fp)] = "0"
    THEN StripTrailingZeros(SubSeq(fp, 1, Len(fp) - 1))
    ELSE fp

\* A JSON number read as f64 (an integer literal too).  The model holds the
\* digits in an integer: a literal of more digits than i32 holds is an Err
\* here, and no request of the model has one.
JsonToF64(t) ==
    LET neg == CharAt(t, 1) = "-"
        body == IF neg THEN Tail(t) ELSE t
        dot == FindFrom(body, <<".">>, 1)
        ip == IF dot = 0 THEN body ELSE SubSeq(body, 1, dot - 1)
        fp == IF dot = 0 THEN <<>> ELSE StripTrailingZeros(SubSeq(body, dot + 1, Len(body)))
        m == AccumulatePositive(ip \o fp, 0)
    IN  IF ~m.ok
        THEN [ok |-> FALSE, val |-> [m |-> 0, e |-> 0]]
        ELSE [ok |-> TRUE, val |-> [m |-> IF neg THEN 0 - m.val ELSE m.val, e |-> Len(fp)]]

\* 10^e
RECURSIVE Pow10(_)
Pow10(e) ==
    IF e = 0 THEN 1 ELSE 10 * Pow10(e - 1)

\* n written with exactly e digits, zeros in front.
RECURSIVE PadDigits(_, _)
PadDigits(n, e) ==
    IF e = 0 THEN <<>> ELSE PadDigits(n \div 10, e - 1) \o <<DIGITS[(n % 10) + 1]>>

\* serde_json's text of an f64: always with a point, "18000.0", "9999.5".
F64ToChars(x) ==
    LET a == IF x.m < 0 THEN 0 - x.m ELSE x.m
        sign == IF x.m < 0 THEN <<"-">> ELSE <<>>
    IN  IF x.e = 0
        THEN sign \o NatToChars(a) \o <<".", "0">>
        ELSE sign \o NatToChars(a \div Pow10(x.e)) \o <<".">> \o PadDigits(a % Pow10(x.e), x.e)

\* A JSON string of a text that needs no escaping.
Quoted(s) ==
    <<"\"">> \o s \o <<"\"">>

\* struct Car with #[serde(default)] on price: a body without price decodes,
\* its price 0.0.
CarOfMembersPriceDefaulted(ms) ==
    LET at(key) == {i \in 1..Len(ms) : ms[i].key = key}
        the(key) == ms[CHOOSE i \in at(key) : TRUE]
        once(key) == Cardinality(at(key)) = 1
        isText(key) == once(key) /\ the(key).kind = "str"
        isI32(key) == once(key) /\ the(key).kind = "num" /\ JsonToI32(the(key).text).ok
        isF64(key) == once(key) /\ the(key).kind = "num" /\ JsonToF64(the(key).text).ok
        idOk == \/ at(KEY_ID) = {}
                \/ once(KEY_ID) /\ the(KEY_ID).kind = "null"
                \/ isI32(KEY_ID)
    IN  IF idOk /\ isText(KEY_BRAND) /\ isText(KEY_MODEL) /\ isI32(KEY_YEAR)
           /\ (at(KEY_PRICE) = {} \/ isF64(KEY_PRICE))
        THEN [ok |-> TRUE,
              car |-> [id |-> IF isI32(KEY_ID)
                              THEN <<JsonToI32(the(KEY_ID).text).val>>
                              ELSE <<>>,
                       brand |-> the(KEY_BRAND).text,
                       model |-> the(KEY_MODEL).text,
                       year |-> JsonToI32(the(KEY_YEAR).text).val,
                       price |-> IF at(KEY_PRICE) = {}
                                 THEN [m |-> 0, e |-> 0]
                                 ELSE JsonToF64(the(KEY_PRICE).text).val]]
        ELSE [ok |-> FALSE,
              car |-> [id |-> <<>>, brand |-> <<>>, model |-> <<>>, year |-> 0,
                       price |-> [m |-> 0, e |-> 0]]]

\* The value of type Car that the members ms of an object make.
\* #[derive(Deserialize)] struct Car: every field but id is required, id may
\* be absent or null, a field given twice is an error, a key that is no
\* field of Car is ignored, and each value must have its field's type.
CarOfMembers(ms) ==
    LET at(key) == {i \in 1..Len(ms) : ms[i].key = key}
        the(key) == ms[CHOOSE i \in at(key) : TRUE]
        once(key) == Cardinality(at(key)) = 1
        isText(key) == once(key) /\ the(key).kind = "str"
        isI32(key) == once(key) /\ the(key).kind = "num" /\ JsonToI32(the(key).text).ok
        isF64(key) == once(key) /\ the(key).kind = "num" /\ JsonToF64(the(key).text).ok
        idOk == \/ at(KEY_ID) = {}
                \/ once(KEY_ID) /\ the(KEY_ID).kind = "null"
                \/ isI32(KEY_ID)
    IN  IF idOk /\ isText(KEY_BRAND) /\ isText(KEY_MODEL) /\ isI32(KEY_YEAR)
           /\ isF64(KEY_PRICE)
        THEN [ok |-> TRUE,
              car |-> [id |-> IF isI32(KEY_ID)
                              THEN <<JsonToI32(the(KEY_ID).text).val>>
                              ELSE <<>>,
                       brand |-> the(KEY_BRAND).text,
                       model |-> the(KEY_MODEL).text,
                       year |-> JsonToI32(the(KEY_YEAR).text).val,
                       price |-> JsonToF64(the(KEY_PRICE).text).val]]
        ELSE [ok |-> FALSE,
              car |-> [id |-> <<>>, brand |-> <<>>, model |-> <<>>, year |-> 0,
                       price |-> [m |-> 0, e |-> 0]]]

\* serde_json::from_str::<Car>(s)
from_str_Car(s) ==
    CHOOSE res \in {IF obj.ok THEN CarOfMembers(obj.members) ELSE CarOfMembers(<<>>) :
                        obj \in {ParseObject(s)}} : TRUE

\* #[derive(Serialize)] struct Car, through serde_json::to_string: the fields
\* in declaration order, no white space, None as null.
to_string_Car(car) ==
    <<"{">> \o Quoted(KEY_ID) \o <<":">>
        \o (IF car.id = <<>> THEN JSON_NULL ELSE IntToChars(car.id[1])) \o <<",">>
        \o Quoted(KEY_BRAND) \o <<":">> \o Quoted(car.brand) \o <<",">>
        \o Quoted(KEY_MODEL) \o <<":">> \o Quoted(car.model) \o <<",">>
        \o Quoted(KEY_YEAR) \o <<":">> \o IntToChars(car.year) \o <<",">>
        \o Quoted(KEY_PRICE) \o <<":">> \o F64ToChars(car.price) \o <<"}">>

\* serde_json::to_string of a Vec<Car>: the cars in the Vec's order.
RECURSIVE JoinCars(_)
JoinCars(cs) ==
    IF Len(cs) = 0
    THEN <<>>
    ELSE IF Len(cs) = 1
    THEN to_string_Car(cs[1])
    ELSE to_string_Car(cs[1]) \o <<",">> \o JoinCars(Tail(cs))

to_string_Vec(cs) ==
    <<"[">> \o JoinCars(cs) \o <<"]">>

(***************************************************************************)
(* The PostgreSQL table the program creates in set_database:               *)
(*   cars (id SERIAL PRIMARY KEY, brand VARCHAR NOT NULL,                  *)
(*         model VARCHAR NOT NULL, year INT NOT NULL, price FLOAT NOT NULL)*)
(* A row is a record [id, brand, model, year, price]; the table is the set *)
(* of its rows.  db is the store as a statement sees it: [exists, rows,    *)
(* serial].  A statement fails when the table does not exist or when the   *)
(* server or the connection fails it (ran = FALSE).                        *)
(***************************************************************************)
Row(id, car) ==
    [id |-> id, brand |-> car.brand, model |-> car.model, year |-> car.year,
     price |-> car.price]

\* The columns of brand and model taken one for the other:
\* brand: row.get(2), model: row.get(1).
CarOfRowColumnsSwapped(row) ==
    [id |-> <<row.id>>, brand |-> row.model, model |-> row.brand, year |-> row.year,
     price |-> row.price]

\* Car { id: row.get(0), brand: row.get(1), model: row.get(2),
\*       year: row.get(3), price: row.get(4) }
CarOfRow(row) ==
    [id |-> <<row.id>>, brand |-> row.brand, model |-> row.model, year |-> row.year,
     price |-> row.price]

Ids(rows) ==
    {row.id : row \in rows}

\* An INSERT that also writes the id the body names, when it names one:
\* INSERT INTO cars (id, brand, model, year, price) VALUES (..).
InsertCarWithBodyId(db, car, ran) ==
    LET id == IF car.id = <<>> THEN db.serial ELSE car.id[1]
    IN  IF db.exists /\ ran /\ id \notin Ids(db.rows)
        THEN [ok |-> TRUE, rows |-> db.rows \cup {Row(id, car)},
              serial |-> IF car.id = <<>> THEN db.serial + 1 ELSE db.serial]
        ELSE [ok |-> FALSE, rows |-> db.rows, serial |-> db.serial]

\* INSERT INTO cars (brand, model, year, price) VALUES ($1, $2, $3, $4)
\* The id is the sequence's next value; the primary key refuses a second row
\* with an id in use.
InsertCar(db, car, ran) ==
    IF db.exists /\ ran /\ db.serial \notin Ids(db.rows)
    THEN [ok |-> TRUE, rows |-> db.rows \cup {Row(db.serial, car)},
          serial |-> db.serial + 1]
    ELSE [ok |-> FALSE, rows |-> db.rows, serial |-> db.serial]

\* The SELECT without its WHERE clause.
SelectCarWithoutWhere(db, id, ran) ==
    IF db.exists /\ ran
    THEN [ok |-> TRUE, rows |-> db.rows]
    ELSE [ok |-> FALSE, rows |-> {}]

\* SELECT * FROM cars WHERE id = $1
SelectCar(db, id, ran) ==
    IF db.exists /\ ran
    THEN [ok |-> TRUE, rows |-> {row \in db.rows : row.id = id}]
    ELSE [ok |-> FALSE, rows |-> {}]

\* Client::query_one: Ok(row) when the query returns exactly one row, Err
\* when it fails and when it returns no row or more than one.
query_one(db, id, ran) ==
    LET res == SelectCar(db, id, ran)
    IN  IF res.ok /\ Cardinality(res.rows) = 1
        THEN [ok |-> TRUE, row |-> <<CHOOSE row \in res.rows : TRUE>>]
        ELSE [ok |-> FALSE, row |-> <<>>]

\* SELECT id, brand, model, year, price FROM cars
\* The rows come in an order of the server's choosing: order is a sequence
\* that lists every row once.
SelectAllCars(db, order, ran) ==
    IF db.exists /\ ran
    THEN [ok |-> TRUE, rows |-> order]
    ELSE [ok |-> FALSE, rows |-> <<>>]

\* The orders in which the server may return the rows of a table.
RowOrders(rows) ==
    {order \in [1..Cardinality(rows) -> rows] :
        \A row \in rows : \E i \in 1..Cardinality(rows) : order[i] = row}

\* An UPDATE that also sets the id to the one the body names, when it names
\* one: UPDATE cars SET id = COALESCE($6, id), brand = $1, .. WHERE id = $5.
\* The primary key refuses an id that another row has.
UpdateCarSetsBodyId(db, id, car, ran) ==
    LET to == IF car.id = <<>> THEN id ELSE car.id[1]
        taken == to # id /\ id \in Ids(db.rows) /\ to \in Ids(db.rows)
    IN  IF db.exists /\ ran /\ ~taken
        THEN [ok |-> TRUE,
              rows |-> {IF row.id = id THEN Row(to, car) ELSE row : row \in db.rows},
              affected |-> Cardinality({row \in db.rows : row.id = id})]
        ELSE [ok |-> FALSE, rows |-> db.rows, affected |-> 0]

\* The UPDATE without its WHERE clause: every row is set.
UpdateCarWithoutWhere(db, id, car, ran) ==
    IF db.exists /\ ran
    THEN [ok |-> TRUE,
          rows |-> {Row(row.id, car) : row \in db.rows},
          affected |-> Cardinality(db.rows)]
    ELSE [ok |-> FALSE, rows |-> db.rows, affected |-> 0]

\* UPDATE cars SET brand = $1, model = $2, year = $3, price = $4 WHERE id = $5
UpdateCar(db, id, car, ran) ==
    IF db.exists /\ ran
    THEN [ok |-> TRUE,
          rows |-> {IF row.id = id THEN Row(row.id, car) ELSE row : row \in db.rows},
          affected |-> Cardinality({row \in db.rows : row.id = id})]
    ELSE [ok |-> FALSE, rows |-> db.rows, affected |-> 0]

\* DELETE FROM cars WHERE id = $1
DeleteCar(db, id, ran) ==
    IF db.exists /\ ran
    THEN [ok |-> TRUE,
          rows |-> {row \in db.rows : row.id # id},
          affected |-> Cardinality({row \in db.rows : row.id = id})]
    ELSE [ok |-> FALSE, rows |-> db.rows, affected |-> 0]

(***************************************************************************)
(* The request functions.  Each handler is an operator of the request, the *)
(* store and env, the outcomes the environment decides: env.connected      *)
(* (Client::connect returned Ok), env.ran (the server ran the statement)   *)
(* and env.order (the order of the rows of a full scan).  Its result is    *)
(* what the call does: it returns a (status_line, content) pair or panics  *)
(* in an unwrap(), and leaves the store as rows and serial say.            *)
(***************************************************************************)
\* request.split("/").nth(2).unwrap_or_default()
\*        .split_whitespace().next().unwrap_or_default()
get_id(r) ==
    next_or_default(split_whitespace(nth_or_default(split(r, SLASH), 2)))

\* get_id(&request).parse::<i32>().unwrap_or(0), taken as Ok.
parse_id_or_zero(r) ==
    [ok |-> TRUE, val |-> parse_i32(get_id(r)).val]

\* get_id(&request).parse::<i32>()
parse_id(r) ==
    parse_i32(get_id(r))

\* The text get_car_request_body hands to serde_json:
\* request.split("\r\n\r\n").last().unwrap_or_default()
request_body(r) ==
    last_or_default(split(r, BLANK_LINE))

\* serde_json::from_str(request.split("\r\n\r\n").last().unwrap_or_default())
get_car_request_body(r) ==
    from_str_Car(request_body(r))

\* A handler that returned (status_line, content).
Returned(status_line, content, db, env, issued) ==
    [panicked |-> FALSE,
     response |-> <<[status_line |-> status_line, content |-> content]>>,
     rows |-> db.rows, serial |-> db.serial,
     opened |-> IF env.connected THEN 1 ELSE 0,
     issued |-> issued,
     error |-> IF env.connected THEN "none" ELSE "connect"]

\* The catch-all arm of a handler that tries Client::connect a second time
\* when the first try failed, and drops the connection the retry opened.
InternalErrorAfterRetry(db, env) ==
    [Returned(INTERNAL_ERROR, MSG_INTERNAL_ERROR, db, env, 0) EXCEPT !.opened = 1]

\* The (INTERNAL_ERROR, "Internal error") arm of a handler's match: no
\* statement was sent.
InternalError(db, env) ==
    Returned(INTERNAL_ERROR, MSG_INTERNAL_ERROR, db, env, 0)

\* A statement that returned Err to an arm that handles it.
StatementErr(status_line, content, db, env) ==
    [Returned(status_line, content, db, env, 1) EXCEPT !.error = "statement"]

\* A handler whose unwrap() met an Err: the statement was sent and failed,
\* and the panic unwinds out of handle_client and main.
Panicked(db) ==
    [panicked |-> TRUE, response |-> <<>>, rows |-> db.rows, serial |-> db.serial,
     opened |-> 1, issued |-> 1, error |-> "statement"]

\* The arms of handle_post_request's match on
\* (get_car_request_body(&request), Client::connect(..)).
post_match(body, db, env) ==
    IF body.ok /\ env.connected
    THEN LET res == InsertCar(db, body.car, env.ran)
         IN  IF res.ok
             THEN Returned(OK_RESPONSE, MSG_CAR_CREATED,
                           [db EXCEPT !.rows = res.rows, !.serial = res.serial], env, 1)
             ELSE Panicked(db)
    ELSE InternalError(db, env)

handle_post_request(r, db, env) ==
    CHOOSE result \in {post_match(body, db, env) : body \in {get_car_request_body(r)}} : TRUE

\* handle_get_request with a statement that takes the row out as it reads
\* it: DELETE FROM cars WHERE id = $1 RETURNING *.
get_match_delete_returning(id, db, env) ==
    IF id.ok /\ env.connected
    THEN LET res == query_one(db, id.val, env.ran)
         IN  IF res.ok
             THEN Returned(OK_RESPONSE, to_string_Car(CarOfRow(res.row[1])),
                           [db EXCEPT !.rows = DeleteCar(db, id.val, env.ran).rows],
                           env, 1)
             ELSE IF db.exists /\ env.ran
             THEN Returned(NOT_FOUND, MSG_CAR_NOT_FOUND, db, env, 1)
             ELSE StatementErr(NOT_FOUND, MSG_CAR_NOT_FOUND, db, env)
    ELSE InternalError(db, env)

\* The arms of handle_get_request's match on
\* (get_id(&request).parse::<i32>(), Client::connect(..)).
get_match(id, db, env) ==
    IF id.ok /\ env.connected
    THEN LET res == query_one(db, id.val, env.ran)
         IN  IF res.ok
             THEN Returned(OK_RESPONSE, to_string_Car(CarOfRow(res.row[1])), db, env, 1)
             ELSE IF db.exists /\ env.ran
             THEN Returned(NOT_FOUND, MSG_CAR_NOT_FOUND, db, env, 1)
             ELSE StatementErr(NOT_FOUND, MSG_CAR_NOT_FOUND, db, env)
    ELSE InternalError(db, env)

handle_get_request(r, db, env) ==
    CHOOSE result \in {get_match(id, db, env) : id \in {parse_id(r)}} : TRUE

handle_get_all_request(r, db, env) ==
    IF env.connected
    THEN LET res == SelectAllCars(db, env.order, env.ran)
         IN  IF res.ok
             THEN Returned(OK_RESPONSE,
                           to_string_Vec([i \in 1..Len(res.rows) |-> CarOfRow(res.rows[i])]),
                           db, env, 1)
             ELSE Panicked(db)
    ELSE InternalError(db, env)

\* The arms of handle_put_request's match on (get_id(&request).parse::<i32>(),
\* get_car_request_body(&request), Client::connect(..)).
put_match(id, body, db, env) ==
    IF id.ok /\ body.ok /\ env.connected
    THEN LET res == UpdateCar(db, id.val, body.car, env.ran)
         IN  IF res.ok
             THEN Returned(OK_RESPONSE, MSG_CAR_UPDATED, [db EXCEPT !.rows = res.rows],
                           env, 1)
             ELSE Panicked(db)
    ELSE InternalError(db, env)

handle_put_request(r, db, env) ==
    CHOOSE result \in {put_match(id, body, db, env) :
                        id \in {parse_id(r)}, body \in {get_car_request_body(r)}} : TRUE

\* handle_delete_request without its test of rows_affected.
delete_match_without_count(id, db, env) ==
    IF id.ok /\ env.connected
    THEN LET res == DeleteCar(db, id.val, env.ran)
         IN  IF ~res.ok
             THEN Panicked(db)
             ELSE Returned(OK_RESPONSE, MSG_CAR_DELETED, [db EXCEPT !.rows = res.rows],
                           env, 1)
    ELSE InternalError(db, env)

\* The arms of handle_delete_request's match on
\* (get_id(&request).parse::<i32>(), Client::connect(..)).
delete_match(id, db, env) ==
    IF id.ok /\ env.connected
    THEN LET res == DeleteCar(db, id.val, env.ran)
         IN  IF ~res.ok
             THEN Panicked(db)
             ELSE IF res.affected = 0
             THEN Returned(NOT_FOUND, MSG_CAR_NOT_FOUND, db, env, 1)
             ELSE Returned(OK_RESPONSE, MSG_CAR_DELETED, [db EXCEPT !.rows = res.rows],
                           env, 1)
    ELSE InternalError(db, env)

handle_delete_request(r, db, env) ==
    CHOOSE result \in {delete_match(id, db, env) : id \in {parse_id(r)}} : TRUE

\* The last arm of handle_client's match: no handler is called.
not_found(r, db) ==
    [panicked |-> FALSE,
     response |-> <<[status_line |-> NOT_FOUND, content |-> MSG_404_NOT_FOUND]>>,
     rows |-> db.rows, serial |-> db.serial, opened |-> 0, issued |-> 0,
     error |-> "none"]

\* The match with the arm for GET /cars placed before the arm for GET /cars/.
route_get_all_first(r) ==
    IF starts_with(r, POST_CARS) THEN "handle_post_request"
    ELSE IF starts_with(r, GET_CARS) THEN "handle_get_all_request"
    ELSE IF starts_with(r, GET_CARS_SLASH) THEN "handle_get_request"
    ELSE IF starts_with(r, PUT_CARS_SLASH) THEN "handle_put_request"
    ELSE IF starts_with(r, DELETE_CARS_SLASH) THEN "handle_delete_request"
    ELSE "not_found"

\* handle_client's match on the request: the first arm whose guard holds.
route(r) ==
    IF starts_with(r, POST_CARS) THEN "handle_post_request"
    ELSE IF starts_with(r, GET_CARS_SLASH) THEN "handle_get_request"
    ELSE IF starts_with(r, GET_CARS) THEN "handle_get_all_request"
    ELSE IF starts_with(r, PUT_CARS_SLASH) THEN "handle_put_request"
    ELSE IF starts_with(r, DELETE_CARS_SLASH) THEN "handle_delete_request"
    ELSE "not_found"

(***************************************************************************)
(* The peers.  A peer sends one request text on its connection; Requests   *)
(* is the set of texts the model's peers send, built from the pieces of    *)
(* the wire format: METHOD SP PATH SP HTTP/1.1 CRLF headers CRLF body.     *)
(***************************************************************************)
M_POST ==
    <<"P", "O", "S", "T">>

M_GET ==
    <<"G", "E", "T">>

M_PUT ==
    <<"P", "U", "T">>

M_DELETE ==
    <<"D", "E", "L", "E", "T", "E">>

M_PATCH ==
    <<"P", "A", "T", "C", "H">>

M_GET_LOWER ==
    <<"g", "e", "t">>

P_CARS ==
    <<"/", "c", "a", "r", "s">>

P_CARS_SLASH ==
    <<"/", "c", "a", "r", "s", "/">>

P_CARS_1 ==
    <<"/", "c", "a", "r", "s", "/", "1">>

P_CARS_2 ==
    <<"/", "c", "a", "r", "s", "/", "2">>

P_CARS_3 ==
    <<"/", "c", "a", "r", "s", "/", "3">>

P_CARS_ABC ==
    <<"/", "c", "a", "r", "s", "/", "a", "b", "c">>

P_CARS_1_EXTRA ==
    <<"/", "c", "a", "r", "s", "/", "1", "/", "e", "x", "t", "r", "a">>

P_CARSX ==
    <<"/", "c", "a", "r", "s", "X">>

P_CARS_HUGE ==
    <<"/", "c", "a", "r", "s", "/", "9", "9", "9", "9", "9", "9", "9", "9", "9", "9", "9">>

P_CARS_MINUS_1 ==
    <<"/", "c", "a", "r", "s", "/", "-", "1">>

P_BIKES ==
    <<"/", "b", "i", "k", "e", "s">>

P_ROOT ==
    <<"/">>

HTTP_1_1 ==
    <<"H", "T", "T", "P", "/", "1", ".", "1">>

CRLF ==
    <<"\r", "\n">>

HEADER_JSON ==
    <<"C", "o", "n", "t", "e", "n", "t", "-", "T", "y", "p", "e", ":", " ", "a", "p", "p",
    "l", "i", "c", "a", "t", "i", "o", "n", "/", "j", "s", "o", "n", "\r", "\n">>

HEADER_HOST ==
    <<"H", "o", "s", "t", ":", " ", "l", "o", "c", "a", "l", "h", "o", "s", "t", ":", "6",
    "0", "0", "1", "\r", "\n">>

BODY_TOYOTA ==
    <<"{", "\"", "b", "r", "a", "n", "d", "\"", ":", "\"", "T", "o", "y", "o", "t", "a",
    "\"", ",", "\"", "m", "o", "d", "e", "l", "\"", ":", "\"", "C", "o", "r", "o", "l",
    "l", "a", "\"", ",", "\"", "y", "e", "a", "r", "\"", ":", "2", "0", "2", "0", ",",
    "\"", "p", "r", "i", "c", "e", "\"", ":", "1", "8", "0", "0", "0", ".", "0", "}">>

BODY_KIA ==
    <<"{", "\"", "p", "r", "i", "c", "e", "\"", ":", " ", "9", "9", "9", "9", ".", "5",
    ",", " ", "\"", "y", "e", "a", "r", "\"", ":", " ", "2", "0", "1", "9", ",", " ", "\"",
    "m", "o", "d", "e", "l", "\"", ":", " ", "\"", "R", "i", "o", "\"", ",", " ", "\"",
    "b", "r", "a", "n", "d", "\"", ":", " ", "\"", "K", "i", "a", "\"", "}">>

BODY_WITH_ID ==
    <<"{", "\"", "i", "d", "\"", ":", "2", ",", "\"", "b", "r", "a", "n", "d", "\"", ":",
    "\"", "K", "i", "a", "\"", ",", "\"", "m", "o", "d", "e", "l", "\"", ":", "\"", "R",
    "i", "o", "\"", ",", "\"", "y", "e", "a", "r", "\"", ":", "2", "0", "1", "9", ",",
    "\"", "p", "r", "i", "c", "e", "\"", ":", "9", "9", "9", "9", ".", "5", "}">>

BODY_NO_PRICE ==
    <<"{", "\"", "b", "r", "a", "n", "d", "\"", ":", "\"", "K", "i", "a", "\"", ",", "\"",
    "m", "o", "d", "e", "l", "\"", ":", "\"", "R", "i", "o", "\"", ",", "\"", "y", "e",
    "a", "r", "\"", ":", "2", "0", "1", "9", "}">>

BODY_CUT_SHORT ==
    <<"{", "\"", "b", "r", "a", "n", "d", "\"", ":", "\"", "K", "i", "a", "\"", ",", "\"",
    "m", "o", "d", "e", "l", "\"", ":">>

BODY_YEAR_AS_TEXT ==
    <<"{", "\"", "b", "r", "a", "n", "d", "\"", ":", "\"", "K", "i", "a", "\"", ",", "\"",
    "m", "o", "d", "e", "l", "\"", ":", "\"", "R", "i", "o", "\"", ",", "\"", "y", "e",
    "a", "r", "\"", ":", "\"", "2", "0", "1", "9", "\"", ",", "\"", "p", "r", "i", "c",
    "e", "\"", ":", "9", "9", "9", "9", ".", "5", "}">>

BODY_AFTER_BLANK_LINE ==
    <<"n", "o", "t", " ", "j", "s", "o", "n", "\r", "\n", "\r", "\n", "{", "\"", "b", "r",
    "a", "n", "d", "\"", ":", "\"", "K", "i", "a", "\"", ",", "\"", "m", "o", "d", "e",
    "l", "\"", ":", "\"", "R", "i", "o", "\"", ",", "\"", "y", "e", "a", "r", "\"", ":",
    "2", "0", "1", "9", ",", "\"", "p", "r", "i", "c", "e", "\"", ":", "9", "9", "9", "9",
    ".", "5", "}">>

TXT_TOYOTA ==
    <<"T", "o", "y", "o", "t", "a">>

TXT_COROLLA ==
    <<"C", "o", "r", "o", "l", "l", "a">>

TXT_KIA ==
    <<"K", "i", "a">>

TXT_RIO ==
    <<"R", "i", "o">>

\* The two vehicles the peers send.
TOYOTA ==
    [brand |-> TXT_TOYOTA, model |-> TXT_COROLLA, year |-> 2020,
     price |-> [m |-> 18000, e |-> 0]]

KIA ==
    [brand |-> TXT_KIA, model |-> TXT_RIO, year |-> 2019, price |-> [m |-> 99995, e |-> 1]]

\* A request with a request line, headers, the blank line and a body.
HttpRequest(method, path, headers, body) ==
    method \o <<" ">> \o path \o <<" ">> \o HTTP_1_1 \o CRLF \o headers \o CRLF \o body

\* A request line alone, with nothing after the path.
BareRequest(method, path) ==
    method \o <<" ">> \o path

PostRequests ==
    {HttpRequest(M_POST, P_CARS, HEADER_JSON, body) :
        body \in {BODY_TOYOTA, BODY_KIA, BODY_WITH_ID, BODY_NO_PRICE, BODY_CUT_SHORT,
                  BODY_YEAR_AS_TEXT, BODY_AFTER_BLANK_LINE, <<>>}}
    \cup {HttpRequest(M_POST, P_CARS_1_EXTRA, HEADER_JSON, BODY_TOYOTA),
          HttpRequest(M_POST, P_CARSX, <<>>, BODY_KIA),
          HttpRequest(M_POST, P_BIKES, HEADER_JSON, BODY_KIA),
          BareRequest(M_POST, P_CARS)}

GetRequests ==
    {HttpRequest(M_GET, path, HEADER_HOST, <<>>) :
        path \in {P_CARS, P_CARS_SLASH, P_CARS_1, P_CARS_2, P_CARS_3, P_CARS_ABC,
                  P_CARS_1_EXTRA, P_CARSX, P_CARS_HUGE, P_CARS_MINUS_1, P_BIKES, P_ROOT}}
    \cup {BareRequest(M_GET, P_CARS_SLASH),
          BareRequest(M_GET, P_CARS_2),
          M_GET \o <<" ">> \o P_CARS_SLASH \o <<" ", "2">> \o CRLF \o CRLF}

PutRequests ==
    {HttpRequest(M_PUT, P_CARS_1, HEADER_JSON, body) :
        body \in {BODY_TOYOTA, BODY_KIA, BODY_WITH_ID, BODY_CUT_SHORT, <<>>}}
    \cup {HttpRequest(M_PUT, path, HEADER_JSON, BODY_KIA) :
            path \in {P_CARS_2, P_CARS_3, P_CARS_ABC, P_CARS_SLASH, P_CARS, P_CARS_HUGE}}
    \cup {HttpRequest(M_PUT, P_CARS_3, HEADER_JSON, BODY_NO_PRICE),
          HttpRequest(M_PUT, P_CARS_ABC, HEADER_JSON, BODY_CUT_SHORT)}

DeleteRequests ==
    {HttpRequest(M_DELETE, path, <<>>, <<>>) :
        path \in {P_CARS_1, P_CARS_2, P_CARS_3, P_CARS_ABC, P_CARS_SLASH, P_CARS,
                  P_CARS_1_EXTRA, P_CARS_MINUS_1}}

OtherRequests ==
    {HttpRequest(M_PATCH, P_CARS_1, HEADER_JSON, BODY_KIA),
     HttpRequest(M_GET_LOWER, P_CARS, <<>>, <<>>)}

Requests ==
    PostRequests \cup GetRequests \cup PutRequests \cup DeleteRequests \cup OtherRequests

(***************************************************************************)
(* The process: main(), handle_client() and the steps between them.        *)
(* pc is the place of the single thread:                                   *)
(*   "start"    before set_database            (main, line 31)             *)
(*   "bind"     before TcpListener::bind       (main, line 37)             *)
(*   "accept"   in listener.incoming()         (main, line 40)             *)
(*   "read"     before stream.read             (handle_client, line 57)    *)
(*   "dispatch" before the match on request    (handle_client, line 61)    *)
(*   "write"    before stream.write_all        (handle_client, line 70)    *)
(*   "close"    at the end of handle_client    (handle_client, line 74)    *)
(*   "panicked" after a panic left main: the process has exited            *)
(***************************************************************************)
NoResponse ==
    <<>>

\* The store when the process starts.  It outlives the process: there may be
\* no table yet, or the table of an earlier run, empty or with a row in it.
InitialStores ==
    {[exists |-> FALSE, rows |-> {}, serial |-> 1],
     [exists |-> TRUE, rows |-> {}, serial |-> 1],
     [exists |-> TRUE, rows |-> {Row(1, TOYOTA)}, serial |-> 2]}

Init ==
    /\ pc = "start"
    /\ listening = FALSE
    /\ \E db \in InitialStores :
        /\ tableExists = db.exists
        /\ cars = db.rows
        /\ serial = db.serial
    /\ stream = <<>>
    /\ request = <<>>
    /\ handler = "none"
    /\ response = NoResponse
    /\ out = <<>>
    /\ dbOpened = 0
    /\ dbIssued = 0
    /\ dbError = "none"
    /\ schemaRuns = 0

\* The store as a statement sees it.
Db ==
    [exists |-> tableExists, rows |-> cars, serial |-> serial]

\* set_database(): CREATE TABLE IF NOT EXISTS through a connection of its
\* own.  It creates the table when there is none and changes no row; main
\* prints the outcome and goes on either way.
set_database(exists, connected, ran) ==
    IF connected /\ ran
    THEN [ok |-> TRUE, exists |-> TRUE]
    ELSE [ok |-> FALSE, exists |-> exists]

SetDatabase ==
    /\ pc = "start"
    /\ \E connected \in BOOLEAN, ran \in BOOLEAN :
        tableExists' = set_database(tableExists, connected, ran).exists
    /\ schemaRuns' = schemaRuns + 1
    /\ pc' = "bind"
    /\ UNCHANGED <<listening, cars, serial, stream, request, handler, response, out,
                   dbOpened, dbIssued, dbError>>

\* TcpListener::bind(...).unwrap() returned the listener.
BindOk ==
    /\ pc = "bind"
    /\ listening' = TRUE
    /\ pc' = "accept"
    /\ UNCHANGED <<tableExists, cars, serial, stream, request, handler, response, out,
                   dbOpened, dbIssued, dbError, schemaRuns>>

\* TcpListener::bind(...).unwrap() met an Err (the port is taken): a panic.
BindErr ==
    /\ pc = "bind"
    /\ pc' = "panicked"
    /\ UNCHANGED <<listening, tableExists, cars, serial, stream, request, handler,
                   response, out, dbOpened, dbIssued, dbError, schemaRuns>>

\* main with handle_client run on a thread of its own
\* (thread::spawn(|| handle_client(stream))): the loop accepts the next
\* connection while the last one is still being served.
AcceptOkSpawned ==
    /\ pc \in {"accept", "read", "dispatch", "write"}
    /\ \E r \in Requests :
        /\ route(r) = "handle_post_request" => serial <= MaxSerial
        /\ stream' = r
    /\ pc' = "read"
    /\ UNCHANGED <<listening, tableExists, cars, serial, request, handler, response, out,
                   dbOpened, dbIssued, dbError, schemaRuns>>

\* listener.incoming() yields Ok(stream): a peer that sends r.  The peers
\* stop sending create requests once the sequence has handed out MaxSerial
\* values.
AcceptOk ==
    /\ pc = "accept"
    /\ \E r \in Requests :
        /\ route(r) = "handle_post_request" => serial <= MaxSerial
        /\ stream' = r
    /\ pc' = "read"
    /\ UNCHANGED <<listening, tableExists, cars, serial, request, handler, response, out,
                   dbOpened, dbIssued, dbError, schemaRuns>>

\* listener.incoming() yields Err(e): printed, and the loop goes on.
AcceptErr ==
    /\ pc = "accept"
    /\ UNCHANGED vars

\* The bytes one stream.read(&mut buffer) returns: at most the buffer's
\* size, or none when the peer has closed without sending.
ReadSizes(sent) ==
    {0, IF Len(sent) < BUFFER_SIZE THEN Len(sent) ELSE BUFFER_SIZE}

\* stream.read returned Ok(size): request is the text of buffer[..size].
ReadOk ==
    /\ pc = "read"
    /\ \E size \in ReadSizes(stream) : request' = SubSeq(stream, 1, size)
    /\ pc' = "dispatch"
    /\ UNCHANGED <<listening, tableExists, cars, serial, stream, handler, response, out,
                   dbOpened, dbIssued, dbError, schemaRuns>>

\* stream.read returned Err(e): printed, and handle_client returns.
ReadErr ==
    /\ pc = "read"
    /\ pc' = "close"
    /\ UNCHANGED <<listening, tableExists, cars, serial, stream, request, handler,
                   response, out, dbOpened, dbIssued, dbError, schemaRuns>>

\* The call of one arm of the match, from its start to its return or panic.
\* The actions below bind the handler's result once (result \in {..}).
Call(name, result) ==
    /\ handler' = name
    /\ response' = result.response
    /\ cars' = result.rows
    /\ serial' = result.serial
    /\ dbOpened' = result.opened
    /\ dbIssued' = result.issued
    /\ dbError' = result.error
    /\ pc' = IF result.panicked THEN "panicked" ELSE "write"
    /\ UNCHANGED <<listening, tableExists, stream, request, out, schemaRuns>>

\* What the environment decides for a handler that reads no full scan.
Envs ==
    [connected : BOOLEAN, ran : BOOLEAN, order : {<<>>}]

HandlePost ==
    /\ pc = "dispatch"
    /\ route(request) = "handle_post_request"
    /\ \E env \in Envs :
        \E result \in {handle_post_request(request, Db, env)} :
            Call("handle_post_request", result)

HandleGet ==
    /\ pc = "dispatch"
    /\ route(request) = "handle_get_request"
    /\ \E env \in Envs :
        \E result \in {handle_get_request(request, Db, env)} :
            Call("handle_get_request", result)

HandleGetAll ==
    /\ pc = "dispatch"
    /\ route(request) = "handle_get_all_request"
    /\ \E env \in [connected : BOOLEAN, ran : BOOLEAN, order : RowOrders(cars)] :
        \E result \in {handle_get_all_request(request, Db, env)} :
            Call("handle_get_all_request", result)

HandlePut ==
    /\ pc = "dispatch"
    /\ route(request) = "handle_put_request"
    /\ \E env \in Envs :
        \E result \in {handle_put_request(request, Db, env)} :
            Call("handle_put_request", result)

HandleDelete ==
    /\ pc = "dispatch"
    /\ route(request) = "handle_delete_request"
    /\ \E env \in Envs :
        \E result \in {handle_delete_request(request, Db, env)} :
            Call("handle_delete_request", result)

HandleNotFound ==
    /\ pc = "dispatch"
    /\ route(request) = "not_found"
    /\ \E result \in {not_found(request, Db)} : Call("not_found", result)

\* stream.write_all(format!("{}{}", status_line, content).as_bytes()) is Ok.
WriteOk ==
    /\ pc = "write"
    /\ out' = response[1].status_line \o response[1].content
    /\ pc' = "close"
    /\ UNCHANGED <<listening, tableExists, cars, serial, stream, request, handler,
                   response, dbOpened, dbIssued, dbError, schemaRuns>>

\* stream.write_all(...).unwrap() met an Err (the peer is gone): a panic.
WriteErr ==
    /\ pc = "write"
    /\ pc' = "panicked"
    /\ UNCHANGED <<listening, tableExists, cars, serial, stream, request, handler,
                   response, out, dbOpened, dbIssued, dbError, schemaRuns>>

\* handle_client returns: the stream is dropped, which closes the
\* connection, and its locals are gone; main is back in its loop.
Close ==
    /\ pc = "close"
    /\ stream' = <<>>
    /\ request' = <<>>
    /\ handler' = "none"
    /\ response' = NoResponse
    /\ out' = <<>>
    /\ dbOpened' = 0
    /\ dbIssued' = 0
    /\ dbError' = "none"
    /\ pc' = "accept"
    /\ UNCHANGED <<listening, tableExists, cars, serial, schemaRuns>>

Next ==
    \/ SetDatabase
    \/ BindOk
    \/ BindErr
    \/ AcceptOk
    \/ AcceptErr
    \/ ReadOk
    \/ ReadErr
    \/ HandlePost
    \/ HandleGet
    \/ HandleGetAll
    \/ HandlePut
    \/ HandleDelete
    \/ HandleNotFound
    \/ WriteOk
    \/ WriteErr
    \/ Close

Spec ==
    Init /\ [][Next]_vars

(***************************************************************************)
(* Properties.  The handler has returned when pc = "write"; it has         *)
(* panicked when pc = "panicked" and there is no response.                 *)
(***************************************************************************)
Handlers ==
    {"handle_post_request", "handle_get_request", "handle_get_all_request",
     "handle_put_request", "handle_delete_request"}

HasResponse ==
    response # NoResponse

StatusIs(status_line) ==
    HasResponse /\ response[1].status_line = status_line

\* A step that is the call of handler name, from the match to its end.
CallOf(name) ==
    pc = "dispatch" /\ handler' = name

\* That step, when the handler returned.
ReturnOf(name) ==
    CallOf(name) /\ pc' = "write"

\* The method and the path of a request line METHOD SP PATH SP VERSION: the
\* text before the first space, and the text from there to the next white
\* space.
RequestMethod(r) ==
    LET sp == FindFrom(r, <<" ">>, 1)
    IN  IF sp = 0 THEN r ELSE SubSeq(r, 1, sp - 1)

RequestPath(r) ==
    LET sp == FindFrom(r, <<" ">>, 1)
        rest == IF sp = 0 THEN <<>> ELSE SubSeq(r, sp + 1, Len(r))
        ends == {i \in 1..Len(rest) : rest[i] \in WHITESPACE}
    IN  IF ends = {} THEN rest ELSE SubSeq(rest, 1, MinOf(ends) - 1)

\* The routing table of the specification, in its order of priority.
ExpectedHandler(method, path) ==
    IF method = M_POST /\ starts_with(path, P_CARS) THEN "handle_post_request"
    ELSE IF method = M_GET /\ starts_with(path, P_CARS_SLASH) THEN "handle_get_request"
    ELSE IF method = M_GET /\ starts_with(path, P_CARS) THEN "handle_get_all_request"
    ELSE IF method = M_PUT /\ starts_with(path, P_CARS_SLASH) THEN "handle_put_request"
    ELSE IF method = M_DELETE /\ starts_with(path, P_CARS_SLASH)
    THEN "handle_delete_request"
    ELSE "not_found"

\* C1: for every routed request and every store outcome the handler returns
\* a (status, body) pair and the process keeps running; a statement that
\* fails on an open connection yields the 500 response and does not end the
\* process.  (Which response getOne gives to a failed query is C11's.)
C1_StatementFailureIsNotFatal ==
    handler \in Handlers =>
        /\ HasResponse
        /\ (dbError = "statement" /\ handler # "handle_get_request") =>
            (pc # "panicked" /\ StatusIs(INTERNAL_ERROR))

\* C2: once the listener is bound the process never exits, whatever the
\* accepts, the reads and the writes on the accepted connections do (a
\* failing store statement aside, which is C1's).
C2_ProcessNeverExits ==
    (listening /\ dbError # "statement") => pc # "panicked"

\* C3: every request goes to the one handler that is the first match of the
\* routing table on its method and path prefix, and a request that matches
\* no entry gets the 404 response with no connection to the store opened and
\* no statement sent.
C3_RoutedByFirstPrefixMatch ==
    handler # "none" =>
        /\ handler = ExpectedHandler(RequestMethod(request), RequestPath(request))
        /\ handler = "not_found" =>
            /\ response = <<[status_line |-> NOT_FOUND, content |-> MSG_404_NOT_FOUND]>>
            /\ dbOpened = 0
            /\ dbIssued = 0

\* C3's case: requests whose paths run on after the prefix, each routed by
\* the prefix: GET /cars/1/extra to getOne and POST /carsX to create.
C3_Witness ==
    \/ /\ handler = "handle_get_request"
       /\ RequestPath(request) = P_CARS_1_EXTRA
    \/ /\ handler = "handle_post_request"
       /\ RequestPath(request) = P_CARSX

\* The fields of a row, or of a Car, that a request body sets.
Fields(x) ==
    [brand |-> x.brand, model |-> x.model, year |-> x.year, price |-> x.price]

\* The store in the state a step leads to.
DbAfter ==
    [exists |-> tableExists', rows |-> cars', serial |-> serial']

\* The environment in which the store is reachable and runs the statement.
StoreAvailable ==
    [connected |-> TRUE, ran |-> TRUE, order |-> <<>>]

\* What GET /cars/<id> returns from store db when the store is available.
GetOneFrom(db, id) ==
    handle_get_request(HttpRequest(M_GET, P_CARS_SLASH \o IntToChars(id), <<>>, <<>>),
                       db, StoreAvailable).response[1]

\* A getOne response that carries exactly the Car car.
Carries(resp, car) ==
    /\ resp.status_line = OK_RESPONSE
    /\ from_str_Car(resp.content) = [ok |-> TRUE, car |-> car]

\* C4: a create that succeeds adds exactly one row; its id is the store's
\* next sequence value, which no row has, whatever id the body names; its
\* brand, model, year and price are the body's; every row there was stays as
\* it was; and getOne on the new id then returns those four fields.
C4_CreateRoundTrip ==
    [][(ReturnOf("handle_post_request") /\ response'[1].status_line = OK_RESPONSE) =>
        LET sent == from_str_Car(request_body(request)).car
            new == cars' \ cars
        IN  /\ cars \subseteq cars'
            /\ Cardinality(new) = 1
            /\ \A row \in new :
                /\ row.id = serial
                /\ row.id \notin Ids(cars)
                /\ Fields(row) = Fields(sent)
                /\ Carries(GetOneFrom(DbAfter, row.id), [sent EXCEPT !.id = <<row.id>>])
            /\ request = HttpRequest(M_POST, P_CARS, HEADER_JSON, BODY_TOYOTA) =>
                \A row \in new : Fields(row) = TOYOTA
            /\ request = HttpRequest(M_POST, P_CARS, HEADER_JSON, BODY_KIA) =>
                \A row \in new : Fields(row) = KIA
    ]_vars

\* C4's case: a create whose body names id 2 has succeeded while the
\* sequence stood at 1: the row made is row 1 and there is no row 2.
C4_Witness ==
    /\ pc = "write"
    /\ handler = "handle_post_request"
    /\ StatusIs(OK_RESPONSE)
    /\ request_body(request) = BODY_WITH_ID
    /\ \E row \in cars : row.id = 1 /\ Fields(row) = KIA
    /\ 2 \notin Ids(cars)

\* C5: with the store available, getOne on an id that a row has returns the
\* 200 response with exactly that row's id, brand, model, year and price,
\* and getOne on a numeric id that no row has returns the 404 response.
C5_GetOneReturnsTheRow ==
    (pc = "write" /\ handler = "handle_get_request" /\ parse_id(request).ok
     /\ dbError = "none" /\ dbOpened = 1) =>
        LET id == parse_id(request).val
            found == {row \in cars : row.id = id}
        IN  IF found = {}
            THEN response = <<[status_line |-> NOT_FOUND, content |-> MSG_CAR_NOT_FOUND]>>
            ELSE \A row \in found :
                    Carries(response[1],
                            [id |-> <<id>>, brand |-> row.brand, model |-> row.model,
                             year |-> row.year, price |-> row.price])

\* C5's case: getOne has answered for id 2 while rows 1 and 2 both exist.
C5_Witness ==
    /\ pc = "write"
    /\ handler = "handle_get_request"
    /\ StatusIs(OK_RESPONSE)
    /\ parse_id(request).val = 2
    /\ Ids(cars) = {1, 2}

\* The number of times character c occurs in text s.
Count(s, c) ==
    Cardinality({i \in 1..Len(s) : s[i] = c})

\* C6: with the store available, getAll returns the 200 response whose
\* content lists exactly the rows of the table, each once, in some order, so
\* as many entries as there are rows; for an empty table it is the empty
\* list.
C6_GetAllReturnsEveryRow ==
    (pc = "write" /\ handler = "handle_get_all_request" /\ dbError = "none"
     /\ dbOpened = 1) =>
        /\ StatusIs(OK_RESPONSE)
        /\ \E order \in RowOrders(cars) :
            response[1].content
                = to_string_Vec([i \in 1..Len(order) |->
                                    [id |-> <<order[i].id>>, brand |-> order[i].brand,
                                     model |-> order[i].model, year |-> order[i].year,
                                     price |-> order[i].price]])
        /\ Count(response[1].content, "{") = Cardinality(cars)
        /\ cars = {} => response[1].content = <<"[", "]">>

\* C6's case: getAll has answered while the table holds two rows.
C6_Witness ==
    /\ pc = "write"
    /\ handler = "handle_get_all_request"
    /\ StatusIs(OK_RESPONSE)
    /\ Cardinality(cars) = 2

\* C7: with the store available, delete on an id that a row has returns the
\* 200 response and removes that row and no other, after which getOne on
\* the id is 404; delete on a numeric id that no row has returns the 404
\* response and leaves the table as it was.  An id that the sequence has
\* handed out and that no row has is never a row's id again.
C7_DeleteRemovesExactlyTheRow ==
    [][/\ (ReturnOf("handle_delete_request") /\ parse_id(request).ok
           /\ dbError' = "none" /\ dbOpened' = 1) =>
            LET id == parse_id(request).val
            IN  IF id \in Ids(cars)
                THEN /\ response'[1] = [status_line |-> OK_RESPONSE,
                                        content |-> MSG_CAR_DELETED]
                     /\ cars' = {row \in cars : row.id # id}
                     /\ Cardinality(cars') = Cardinality(cars) - 1
                     /\ GetOneFrom(DbAfter, id).status_line = NOT_FOUND
                ELSE /\ response'[1] = [status_line |-> NOT_FOUND,
                                        content |-> MSG_CAR_NOT_FOUND]
                     /\ cars' = cars
       /\ \A id \in 1..(serial - 1) : id \notin Ids(cars) => id \notin Ids(cars')
    ]_vars

\* C7's case: DELETE /cars/1 has returned 200 and row 2 is still there.
C7_Witness ==
    /\ pc = "write"
    /\ handler = "handle_delete_request"
    /\ response = <<[status_line |-> OK_RESPONSE, content |-> MSG_CAR_DELETED]>>
    /\ parse_id(request).val = 1
    /\ Ids(cars) = {2}

\* C8: with the store available and a body that decodes, update on an id
\* that a row has sets that row's brand, model, year and price to the
\* body's, keeps its id and every other row, and getOne on the id then
\* returns the new values; update on a numeric id that no row has returns
\* the 200 response, makes no row and leaves the table as it was.
C8_UpdateSetsTheRow ==
    [][(CallOf("handle_put_request") /\ parse_id(request).ok
        /\ from_str_Car(request_body(request)).ok
        /\ dbError' = "none" /\ dbOpened' = 1) =>
            LET id == parse_id(request).val
                sent == from_str_Car(request_body(request)).car
            IN  /\ pc' = "write"
                /\ response'[1] = [status_line |-> OK_RESPONSE,
                                   content |-> MSG_CAR_UPDATED]
                /\ Ids(cars') = Ids(cars)
                /\ \A row \in cars : row.id # id => row \in cars'
                /\ \A row \in cars' : row.id = id => Fields(row) = Fields(sent)
                /\ id \in Ids(cars) =>
                    Carries(GetOneFrom(DbAfter, id), [sent EXCEPT !.id = <<id>>])
                /\ id \notin Ids(cars) => cars' = cars
                /\ request = HttpRequest(M_PUT, P_CARS_1, HEADER_JSON, BODY_TOYOTA) =>
                    \A row \in cars' : row.id = 1 => Fields(row) = TOYOTA
    ]_vars

\* C8's case: PUT /cars/1 with the Toyota body has returned while row 1 was
\* the Kia: row 1 now is the Toyota and row 2 still the Kia.
C8_Witness ==
    /\ pc = "write"
    /\ handler = "handle_put_request"
    /\ response = <<[status_line |-> OK_RESPONSE, content |-> MSG_CAR_UPDATED]>>
    /\ request = HttpRequest(M_PUT, P_CARS_1, HEADER_JSON, BODY_TOYOTA)
    /\ cars = {Row(1, TOYOTA), Row(2, KIA)}

\* The bodies of the model's requests that are not a Vehicle: cut short, a
\* field missing, a field of the wrong type, empty.
MalformedBodies ==
    {BODY_CUT_SHORT, BODY_NO_PRICE, BODY_YEAR_AS_TEXT, <<>>}

\* C9: a create or update whose body does not decode as a Vehicle gets the
\* 500 response and the table stays as it was, no statement is sent, whether
\* the store is reachable or not and whether the id is a row's or not.
C9_MalformedBodyIsInternalError ==
    [][(/\ CallOf("handle_post_request") \/ CallOf("handle_put_request")
        /\ \/ ~from_str_Car(request_body(request)).ok
           \/ request_body(request) \in MalformedBodies) =>
            /\ pc' = "write"
            /\ response'[1] = [status_line |-> INTERNAL_ERROR,
                               content |-> MSG_INTERNAL_ERROR]
            /\ cars' = cars
            /\ serial' = serial
            /\ dbIssued' = 0
    ]_vars

\* C9's case: PUT /cars/1 with a body cut short has returned 500 with the
\* store reachable and row 1 in the table.
C9_Witness ==
    /\ pc = "write"
    /\ handler = "handle_put_request"
    /\ StatusIs(INTERNAL_ERROR)
    /\ request_body(request) = BODY_CUT_SHORT
    /\ parse_id(request).val = 1
    /\ 1 \in Ids(cars)
    /\ dbOpened = 1

\* A text that is no i32 for certain: empty, a sign alone, a character that
\* is no digit, or more digits than an i32 has.
NotAnInteger(s) ==
    LET ds == IF Len(s) > 0 /\ s[1] \in {"+", "-"} THEN Tail(s) ELSE s
    IN  \/ Len(ds) = 0
        \/ \E i \in 1..Len(ds) : ds[i] \notin {DIGITS[d] : d \in 1..10}
        \/ Len(ds) > 10

\* C10: for getOne, update and delete, when the id get_id extracts is empty
\* or no integer the request gets the 500 response and no statement is
\* sent: no id stands in for it, and no row is read, changed or removed.
C10_MalformedIdIsInternalError ==
    [][(/\ \/ CallOf("handle_get_request")
           \/ CallOf("handle_put_request")
           \/ CallOf("handle_delete_request")
        /\ NotAnInteger(get_id(request))) =>
            /\ pc' = "write"
            /\ response'[1] = [status_line |-> INTERNAL_ERROR,
                               content |-> MSG_INTERNAL_ERROR]
            /\ dbIssued' = 0
            /\ cars' = cars
    ]_vars

\* C10's case: a delete whose extracted id is no integer has returned 500
\* with the store reachable and rows in the table.
C10_Witness ==
    /\ pc = "write"
    /\ handler = "handle_delete_request"
    /\ NotAnInteger(get_id(request))
    /\ StatusIs(INTERNAL_ERROR)
    /\ dbOpened = 1
    /\ cars # {}


\* C11: the 404 response of getOne means only that no row has the id: when
\* the connection fails, or the query fails on an open connection, getOne
\* returns the 500 response and never the 404 response.
C11_QueryFailureIsInternalError ==
    (pc = "write" /\ handler = "handle_get_request") =>
        /\ dbError # "none" => StatusIs(INTERNAL_ERROR)
        /\ StatusIs(NOT_FOUND) =>
            /\ dbError = "none"
            /\ parse_id(request).ok
            /\ parse_id(request).val \notin Ids(cars)

\* C12: set_database is called once, before the listener is bound, and
\* whatever its outcome (no connection, or the statement failed) main goes
\* on to bind the listener and accepts connections, and the requests that
\* then come are served: each gets a response from its handler.  The call
\* creates the table when there is none, keeps a table that exists and
\* changes no row and no sequence value.
C12_SchemaFailureDoesNotAbortStartup ==
    /\ [](/\ schemaRuns <= 1
          /\ pc # "start" => schemaRuns = 1
          /\ pc = "bind" => ENABLED BindOk
          /\ pc = "accept" => (listening /\ ENABLED AcceptOk))
    /\ [][pc = "start" =>
            /\ pc' = "bind"
            /\ schemaRuns' = 1
            /\ cars' = cars
            /\ serial' = serial
            /\ tableExists => tableExists'
         ]_vars
    /\ [][(pc = "dispatch" /\ ~tableExists) => (pc' = "write" /\ response' # NoResponse)
         ]_vars

\* C13: connections are served one at a time.  A connection is accepted only
\* when nothing of the one before it is left: its read, its dispatch and
\* its write are over and it is closed.  Within a connection nothing is
\* written before the handler has returned, and what is written is written
\* once and is exactly the response the handler returned.
C13_OneConnectionAtATime ==
    /\ [](/\ pc \in {"accept", "read", "dispatch"} => out = <<>>
          /\ pc \in {"accept", "read"} => (handler = "none" /\ response = NoResponse)
          /\ pc = "accept" => (stream = <<>> /\ request = <<>>))
    /\ [][(pc' = "read" \/ stream' # stream) =>
            /\ pc = "accept" \/ (pc = "close" /\ stream' = <<>>)
            /\ stream = <<>> \/ pc = "close"
            /\ request = <<>> \/ pc = "close"
         ]_vars
    /\ [][out' # out =>
            \/ /\ pc = "write"
               /\ pc' = "close"
               /\ out = <<>>
               /\ HasResponse
               /\ out' = response[1].status_line \o response[1].content
            \/ /\ pc = "close"
               /\ pc' = "accept"
               /\ out' = <<>>
         ]_vars

\* C13's case: a connection has had its response written after earlier
\* connections left two rows in the table.
C13_Witness ==
    /\ pc = "close"
    /\ out # <<>>
    /\ Cardinality(cars) = 2
    /\ handler # "handle_post_request"

\* The text after the first blank line (CR LF CR LF) of request r, and the
\* empty text when r has no blank line.
TextAfterFirstBlankLine(r) ==
    LET at == FindFrom(r, BLANK_LINE, 1)
    IN  IF at = 0 THEN <<>> ELSE SubSeq(r, at + Len(BLANK_LINE), Len(r))

\* C14: the body that create and update hand to the decoder is the text
\* after the first blank line of the request, blank lines in it included,
\* and the empty text when the request has no blank line.
C14_BodyIsAfterFirstBlankLine ==
    (pc = "write" /\ handler \in {"handle_post_request", "handle_put_request"}) =>
        request_body(request) = TextAfterFirstBlankLine(request)

\* Text s up to its first white space.
CutAtWhitespace(s) ==
    LET ends == {i \in 1..Len(s) : s[i] \in WHITESPACE}
    IN  IF ends = {} THEN s ELSE SubSeq(s, 1, MinOf(ends) - 1)

\* The third of the pieces of path between its '/' (index 2), cut at the
\* first white space; the empty text when the path has no third piece.
ThirdSegment(path) ==
    LET pieces == split(path, SLASH)
    IN  IF Len(pieces) < 3 THEN <<>> ELSE CutAtWhitespace(pieces[3])

\* C15: the id that getOne, update and delete extract is the third segment
\* of the request's path, and so the empty text for the path /cars/ and for
\* a path without a third segment, whatever follows the path on the request
\* line.
C15_IdIsThirdSegmentOfPath ==
    (pc = "write"
     /\ handler \in {"handle_get_request", "handle_put_request", "handle_delete_request"}) =>
        get_id(request) = ThirdSegment(RequestPath(request))

\* C16: handling one request opens at most one connection to the store and
\* sends at most one statement, on that connection; after a failed
\* connection nothing more is opened or sent, and a failed statement is not
\* sent again; a request routed to not-found opens no connection; and no
\* connection is there when the next request is read and dispatched.
C16_OneConnectionOneStatement ==
    /\ dbOpened \in {0, 1}
    /\ dbIssued \in {0, 1}
    /\ dbIssued <= dbOpened
    /\ dbError = "connect" => (dbOpened = 0 /\ dbIssued = 0)
    /\ dbError = "statement" => (dbOpened = 1 /\ dbIssued = 1)
    /\ handler = "not_found" => (dbOpened = 0 /\ dbIssued = 0)
    /\ pc \in {"accept", "read", "dispatch"} =>
        (dbOpened = 0 /\ dbIssued = 0 /\ dbError = "none")

\* C16's case: update, with a numeric id and a body that decodes, met a
\* failed connection and returned the 500 response with no second try.
C16_Witness ==
    /\ pc = "write"
    /\ handler = "handle_put_request"
    /\ dbError = "connect"
    /\ parse_id(request).ok
    /\ get_car_request_body(request).ok
    /\ StatusIs(INTERNAL_ERROR)
    /\ dbOpened = 0

\* The objects of the JSON array text that getAll returns, each decoded as
\* a Car: the text between [ and ], cut between one object's } and the next
\* object's {.
CarsOfArray(text) ==
    LET inner == SubSeq(text, 2, Len(text) - 1)
        pieces == split(inner, <<"}", ",", "{">>)
        object(i) == (IF i = 1 THEN <<>> ELSE <<"{">>) \o pieces[i]
                     \o (IF i = Len(pieces) THEN <<>> ELSE <<"}">>)
    IN  IF Len(inner) = 0 THEN <<>> ELSE [i \in 1..Len(pieces) |-> from_str_Car(object(i))]

\* C17: every row of the table has an id, one the sequence has handed out,
\* and no two rows have the same id; the Car a 200 response of getOne
\* carries has its id, and so has every Car of a getAll response, no two of
\* them the same; create gives its row the sequence's value and update
\* leaves every row's id as it was, whatever id the body names.
C17_RowsHaveDistinctIds ==
    /\ [](/\ \A row \in cars : row.id \in 1..(serial - 1)
          /\ \A r1 \in cars, r2 \in cars : r1.id = r2.id => r1 = r2
          /\ (pc = "write" /\ handler = "handle_get_request" /\ StatusIs(OK_RESPONSE)) =>
                \E got \in {from_str_Car(response[1].content)} :
                    /\ got.ok
                    /\ got.car.id # <<>>
                    /\ got.car.id[1] \in Ids(cars)
          /\ (pc = "write" /\ handler = "handle_get_all_request"
              /\ StatusIs(OK_RESPONSE)) =>
                \E got \in {CarsOfArray(response[1].content)} :
                    /\ Len(got) = Cardinality(cars)
                    /\ \A i \in 1..Len(got) : got[i].ok /\ got[i].car.id # <<>>
                    /\ \A i \in 1..Len(got), j \in 1..Len(got) :
                        got[i].car.id = got[j].car.id => i = j)
    /\ [][/\ CallOf("handle_post_request") => Ids(cars') \ Ids(cars) \subseteq {serial}
          /\ CallOf("handle_put_request") =>
                /\ Ids(cars') = Ids(cars)
                /\ Cardinality(cars') = Cardinality(cars)
         ]_vars

\* C17's case: PUT /cars/1 with a body that names id 2 has returned 200: row
\* 1 has the body's fields and its id is still 1, and no row has id 2.
C17_Witness ==
    /\ pc = "write"
    /\ handler = "handle_put_request"
    /\ StatusIs(OK_RESPONSE)
    /\ request_body(request) = BODY_WITH_ID
    /\ \E row \in cars : row.id = 1 /\ Fields(row) = KIA
    /\ 2 \notin Ids(cars)
    /\ Cardinality(cars) = 1

\* C18: getOne, getAll and a request routed to not-found leave the rows of
\* the table, and the sequence, exactly as they were, for every request and
\* every outcome of the store; the rows change only in a create whose body
\* decodes, an update whose id is an integer and whose body decodes, and a
\* delete whose id is an integer.
C18_ReadOnlyRequestsChangeNothing ==
    [][/\ (pc = "dispatch"
           /\ handler' \in {"handle_get_request", "handle_get_all_request", "not_found"}) =>
            (cars' = cars /\ serial' = serial /\ tableExists' = tableExists)
       /\ (cars' # cars \/ serial' # serial) =>
            /\ pc = "dispatch"
            /\ \/ /\ handler' = "handle_post_request"
                  /\ get_car_request_body(request).ok
               \/ /\ handler' = "handle_put_request"
                  /\ parse_id(request).ok
                  /\ get_car_request_body(request).ok
               \/ /\ handler' = "handle_delete_request"
                  /\ parse_id(request).ok
    ]_vars

\* C18's case: getOne has returned row 1 from a table of two rows, and the
\* table still holds both.
C18_Witness ==
    /\ pc = "write"
    /\ handler = "handle_get_request"
    /\ StatusIs(OK_RESPONSE)
    /\ parse_id(request).val = 1
    /\ Ids(cars) = {1, 2}
=============================================================================
